---- MODULE Spec2Model ----
(***************************************************************************)
(* Request/response correlation bridge of photoshop-mcp.                   *)
(*                                                                         *)
(*   Listener : packages/mcp-server/src/bridge/server.ts                   *)
(*              class PhotoshopBridgeServer                                *)
(*   Dialer   : packages/mcp-server/src/bridge/client.ts                   *)
(*              class PhotoshopBridge                                      *)
(*                                                                         *)
(* One behaviour runs one Bridge instance of one variant (chosen in Init). *)
(* Both classes keep the same requestId counter and pendingRequests map    *)
(* and share the text of send / handleMessage / rejectAllPending; they     *)
(* differ in the Connection Slot (client  vs.  ws + connected).            *)
(*                                                                         *)
(* Every event handler of the Node event loop runs to completion, so one   *)
(* handler is one action.  WebSocket objects of the ws library are the     *)
(* entries of sockets; their 'close' event is always delivered in a later  *)
(* turn of the loop than the close() call that caused it.                  *)
(*                                                                         *)
(* The two programs the Bridge talks to are modelled after it:             *)
(*   plugin   : packages/ps-uxp-bridge/main.js (SpecPlugin), and together  *)
(*              with the Listener in SpecSession                           *)
(*   relay    : scripts/ws-bridge-server.js (SpecRelay)                    *)
(***************************************************************************)
EXTENDS Integers, Sequences, FiniteSets, TLC

\* ---------------------------------------------------------------- bounds
MaxCalls == 2          \* calls of send in one behaviour
MaxSock  == 2          \* WebSocket objects created in one behaviour

\* ------------------------------------------------------ program constants
REQUEST_TIMEOUT == 30000     \* ms
CONNECT_TIMEOUT == 10000     \* ms, the literal of the connect timer

Tick == CONNECT_TIMEOUT      \* granularity of the modelled clock, ms

Commands == {"echo", "doc.open"}

\* The Bridge never looks into command.  The callers issue the commands in
\* turn, so that two calls in flight together never carry the same one.
Workload(c) == IF c % 2 = 1 THEN "echo" ELSE "doc.open"

\* The deadline the caller of the c-th send wants: the default for the odd
\* calls, the connect window for the even ones.  send declares only
\* (command, params), so a caller has no way to hand it over.
CallTimeout(c) == IF c % 2 = 1 THEN REQUEST_TIMEOUT ELSE CONNECT_TIMEOUT

NULL == 0                    \* null reference to a WebSocket

\* --------------------------------------------------------------- variables
VARIABLES
    variant,          \* "Listener" or "Dialer": the class of this instance
    sockets,          \* the WebSocket objects created so far
    wss,              \* Listener: TRUE while this.wss is a listening server
    client,           \* Listener: this.client
    ws,               \* Dialer: this.ws
    connected,        \* Dialer: this.connected
    connects,         \* Dialer: per connect() call, its promise and timer
    requestId,        \* this.requestId
    pendingRequests,  \* this.pendingRequests : id -> entry
    timers,           \* armed setTimeout handles of send, time left in ms
    calls,            \* sends that passed the connected check: their promise
    refused,          \* the errors of the sends that failed the check
    wire,             \* frames written to transports: <<socket, request>>
    stderr,           \* the last warn/error line the receive loop logged
    uncaught,         \* an exception escaped an event handler
    \* the UXP plugin (packages/ps-uxp-bridge/main.js)
    psockets,         \* the WebSocket objects the plugin created so far
    pws,              \* the module-level ws
    status,           \* the status updateStatus showed last
    autoReconnect,    \* the module-level autoReconnect
    reconnectInterval,\* TRUE while the reconnect setInterval is running
    jobs,             \* the requests handleMessage has taken up
    pthrown,          \* the plugin handlers an exception has escaped from
    \* the relay (scripts/ws-bridge-server.js)
    rsockets,         \* the connections the relay has accepted
    uxpClient,        \* the module-level uxpClient
    mcpClient,        \* the module-level mcpClient
    relayed,          \* what the relay did with each message it received
    \* the tool registry (packages/mcp-server/src/tools)
    toolCalls         \* the calls of callTool and of tool handlers so far

pluginVars == <<psockets, pws, status, autoReconnect, reconnectInterval, jobs,
               pthrown>>
relayVars  == <<rsockets, uxpClient, mcpClient, relayed>>
toolVars   == <<toolCalls>>
\* the state around the Bridge instance: the other two programs, and the
\* tool registry that calls it
peerVars   == <<pluginVars, relayVars, toolVars>>

vars == <<variant, sockets, wss, client, ws, connected, connects,
          requestId, pendingRequests, timers, calls, refused, wire, stderr,
          uncaught, pluginVars, relayVars, toolVars>>

\* the state of the MCP server process: the Bridge instance and the tool
\* registry
serverVars == <<variant, sockets, wss, client, ws, connected, connects,
                requestId, pendingRequests, timers, calls, refused, wire,
                stderr, uncaught, toolVars>>

slotVars   == <<wss, client, ws, connected, connects>>
bridgeVars == <<requestId, pendingRequests, timers, calls, refused, wire>>

\* ------------------------------------------------------------- wire codec
\* `req_${++this.requestId}`
ReqId(n) == <<"req_", n>>

NoId == <<>>

\* ids a peer can put into a response: every id this instance can issue,
\* and one it never issues
PeerIds == {ReqId(n) : n \in 1..(MaxCalls + 1)}

\* JSON.stringify(request)
JSONstringify(v) == [text |-> "json", value |-> v]

\* an optional property that is not there (undefined)
Absent == <<>>

\* the response objects a peer sends in the runs that exercise connections
\* and timers: the optional properties are left out
Responses ==
    [kind : {"object"}, hasId : {TRUE}, id : PeerIds,
     ok : BOOLEAN, changed : {TRUE},
     data : {Absent}, artifacts : {Absent}, warnings : {Absent}, error : {Absent}]

\* the optional properties of a BridgeResponse: none, all, data only (a
\* success with a result), error only (a failure)
Optionals ==
    { [data |-> Absent,     artifacts |-> Absent, warnings |-> Absent, error |-> Absent],
      [data |-> <<"data">>, artifacts |-> <<"artifacts">>,
       warnings |-> <<"warnings">>, error |-> <<"error">>],
      [data |-> <<"data">>, artifacts |-> Absent, warnings |-> Absent, error |-> Absent],
      [data |-> Absent,     artifacts |-> Absent, warnings |-> Absent,
       error |-> <<"error">>] }

\* the shapes of BridgeResponse: ok and changed free of each other
AllResponses ==
    { [kind |-> "object", hasId |-> TRUE, id |-> i, ok |-> o, changed |-> ch,
       data |-> opt.data, artifacts |-> opt.artifacts,
       warnings |-> opt.warnings, error |-> opt.error] :
         i \in PeerIds, o \in BOOLEAN, ch \in BOOLEAN, opt \in Optionals }

AllFrames == { JSONstringify(v) : v \in AllResponses }

\* JSON values that are not a response: null, a scalar, an object without id
NonResponses ==
    { [kind |-> k, hasId |-> FALSE, id |-> NoId, ok |-> FALSE, changed |-> FALSE,
       data |-> Absent, artifacts |-> Absent, warnings |-> Absent,
       error |-> Absent] : k \in {"null", "scalar", "object"} }

\* the frames a peer can send: not JSON at all, or the text of a JSON value
Frames ==
    { [text |-> "garbage", value |-> v] : v \in {CHOOSE n \in NonResponses : n.kind = "null"} }
    \cup { JSONstringify(v) : v \in Responses \cup NonResponses }

\* JSON.parse(data): throws a SyntaxError on text that is not JSON
JSONparse(data) ==
    IF data.text = "json"
    THEN [threw |-> FALSE, value |-> data.value]
    ELSE [threw |-> TRUE,  value |-> data.value]

\* response.id : a TypeError on null, undefined on a scalar or on an object
\* without that property
GetId(v) ==
    IF v.kind = "null" THEN [threw |-> TRUE, id |-> NoId]
    ELSE IF v.kind = "object" /\ v.hasId THEN [threw |-> FALSE, id |-> v.id]
    ELSE [threw |-> FALSE, id |-> NoId]

\* --------------------------------------------------------------- errors
ErrConnectionClosed == <<"Connection closed">>
ErrTimeout(command) == <<"Request timeout: ", command>>
ErrNoPlugin         == <<"No UXP plugin connected">>
ErrNotConnected     == <<"Not connected to Photoshop bridge">>
ErrWsConnecting     == <<"WebSocket is not open: readyState 0 (CONNECTING)">>
NoError             == <<"">>

\* ------------------------------------------------------ WebSocket objects
\*   abort   : close() hit a connecting socket; 'error' and 'close' are due
\*   evicted : the Listener closed it, while open, to admit a newer one
NewSocket(state) == [readyState |-> state, abort |-> FALSE, evicted |-> FALSE]

\* WebSocket.close(): starts the closing handshake of an open socket, aborts
\* the handshake of a connecting one (the library then emits 'error' and
\* 'close'); nothing on a socket that is closing or closed
Close(socks, s) ==
    IF socks[s].readyState = "OPEN"
    THEN [socks EXCEPT ![s].readyState = "CLOSING"]
    ELSE IF socks[s].readyState = "CONNECTING"
    THEN [socks EXCEPT ![s].readyState = "CLOSING", ![s].abort = TRUE]
    ELSE socks

\* ------------------------------------------------------ promise of send
\* resolve / reject of the promise returned by send: the first invocation
\* settles it, later ones change nothing; settles counts the invocations
\* (the stopwatch of the caller is kept only for a rejection by the timer)
Settle(cs, c, st, err, val, via) ==
    IF cs[c].state = "waiting"
    THEN [cs EXCEPT ![c].state = st, ![c].error = err, ![c].value = val,
                    ![c].via = via,
                    ![c].waited = IF Head(err) = "Request timeout: " THEN @ ELSE 0,
                    ![c].settles = @ + 1]
    ELSE [cs EXCEPT ![c].settles = @ + 1]

\* the resolve closure stored in the Pending Entry: copies the six fields
\* a resolve that reports no change for a response that is not ok
ToolResponse_changedOnlyIfOk(response) ==
    <<[ok |-> response.ok, changed |-> response.ok /\ response.changed,
       data |-> response.data, artifacts |-> response.artifacts,
       warnings |-> response.warnings, error |-> response.error]>>

ToolResponse(response) ==
    <<[ok |-> response.ok, changed |-> response.changed,
       data |-> response.data, artifacts |-> response.artifacts,
       warnings |-> response.warnings, error |-> response.error]>>

NoValue == <<>>

RECURSIVE RejectAll(_, _, _)
RejectAll(cs, entries, ids) ==
    IF ids = {} THEN cs
    ELSE LET id == CHOOSE i \in ids : TRUE
         IN  RejectAll(Settle(cs, entries[id].reject, "rejected",
                              ErrConnectionClosed, NoValue, NoId),
                       entries, ids \ {id})

EmptyMap == [x \in {} |-> x]

\* rejectAllPending(new Error('Connection closed'))
rejectAllPending ==
    /\ timers' = [t \in DOMAIN timers
                       \ {pendingRequests[id].timeout : id \in DOMAIN pendingRequests}
                  |-> timers[t]]
    /\ calls' = RejectAll(calls, pendingRequests, DOMAIN pendingRequests)
    /\ pendingRequests' = EmptyMap

\* handleMessage(data)

\*   the try block: parse, read response.id, look the id up
\*     threw : an exception left handleMessage
\*     key   : the key whose entry is taken from the table (when found)
\*     log   : the line written by logger.warn / logger.error (NoLog if none)
NoLog          == <<>>
LogUnknown(id) == <<"Received response for unknown request", id>>
LogParse       == <<"Failed to parse message">>

\* the entry that has been in the table longest
Oldest == CHOOSE i \in DOMAIN pendingRequests :
              \A j \in DOMAIN pendingRequests : i[2] <= j[2]

\* answers are handed out in the order of the requests, whatever id they carry
handleMessageResult_fifo(data) ==
    LET parsed == JSONparse(data)
        got    == GetId(parsed.value)
    IN  IF parsed.threw \/ got.threw
        THEN [threw |-> FALSE, found |-> FALSE, key |-> NoId, log |-> LogParse]
        ELSE IF got.id \in DOMAIN pendingRequests
        THEN [threw |-> FALSE, found |-> TRUE,  key |-> Oldest, log |-> NoLog]
        ELSE [threw |-> FALSE, found |-> FALSE, key |-> NoId, log |-> LogUnknown(got.id)]

\* a response with an unknown id is given to the oldest waiting caller
handleMessageResult_fallback(data) ==
    LET parsed == JSONparse(data)
        got    == GetId(parsed.value)
    IN  IF parsed.threw \/ got.threw
        THEN [threw |-> FALSE, found |-> FALSE, key |-> NoId, log |-> LogParse]
        ELSE IF got.id \in DOMAIN pendingRequests
        THEN [threw |-> FALSE, found |-> TRUE,  key |-> got.id, log |-> NoLog]
        ELSE IF DOMAIN pendingRequests # {}
        THEN [threw |-> FALSE, found |-> TRUE,  key |-> Oldest, log |-> NoLog]
        ELSE [threw |-> FALSE, found |-> FALSE, key |-> NoId, log |-> LogUnknown(got.id)]

\* the body of handleMessage without its try/catch
handleMessageResult_noCatch(data) ==
    LET parsed == JSONparse(data)
        got    == GetId(parsed.value)
    IN  IF parsed.threw \/ got.threw
        THEN [threw |-> TRUE, found |-> FALSE, key |-> NoId, log |-> NoLog]
        ELSE IF got.id \in DOMAIN pendingRequests
        THEN [threw |-> FALSE, found |-> TRUE,  key |-> got.id, log |-> NoLog]
        ELSE [threw |-> FALSE, found |-> FALSE, key |-> NoId, log |-> LogUnknown(got.id)]

handleMessageResult(data) ==
    LET parsed == JSONparse(data)
        got    == GetId(parsed.value)
    IN  IF parsed.threw \/ got.threw
        THEN [threw |-> FALSE, found |-> FALSE, key |-> NoId, log |-> LogParse]
        ELSE IF got.id \in DOMAIN pendingRequests
        THEN [threw |-> FALSE, found |-> TRUE,  key |-> got.id, log |-> NoLog]
        ELSE [threw |-> FALSE, found |-> FALSE, key |-> NoId, log |-> LogUnknown(got.id)]

handleMessage(data) ==
    LET r == handleMessageResult(data)
    IN  /\ uncaught' = (uncaught \/ r.threw)
        /\ stderr' = IF r.log = NoLog THEN stderr ELSE r.log
        /\ IF r.found
           THEN LET pending  == pendingRequests[r.key]
                    response == JSONparse(data).value
                IN  /\ timers' = [t \in DOMAIN timers \ {pending.timeout} |-> timers[t]]
                    /\ pendingRequests' =
                          [i \in DOMAIN pendingRequests \ {r.key} |-> pendingRequests[i]]
                    /\ calls' = [Settle(calls, pending.resolve, "resolved", NoError,
                                        ToolResponse(response), response.id)
                                    EXCEPT ![pending.resolve].response = response]
           ELSE UNCHANGED <<timers, pendingRequests, calls>>
        /\ UNCHANGED <<requestId, wire, refused>>

\* the body of send after the connected check, on transport s
\*   c : the caller; the promise executor sets the timer, stores the entry
\*   and writes the request; an exception of the write rejects the promise
\*   sock   : the transport send wrote to
\*   wrote  : what the write did: "sent", "dropped" (the library ignores a
\*            write to a closing or closed socket), "threw" (connecting)
\*   waited : how long the caller has been suspended, ms
\*   via    : the id of the response that resolved it
\*   response : the object pending.resolve was called with
NewCall(command, id, s) ==
    [command |-> command, id |-> id, sock |-> s,
     wrote |-> IF sockets[s].readyState = "OPEN" THEN "sent"
               ELSE IF sockets[s].readyState = "CONNECTING" THEN "threw"
               ELSE "dropped",
     waited |-> 0, state |-> "waiting", error |-> NoError,
     value |-> NoValue, via |-> NoId, response |-> NoValue, settles |-> 0]

\*   n : the number the id is formatted from
sendAs(command, s, delay, n) ==
    LET c  == Len(calls) + 1
        id == ReqId(n)
        cs == Append(calls, NewCall(command, id, s))
    IN  /\ requestId' = requestId + 1
        /\ timers' = [t \in DOMAIN timers \cup {c} |->
                         IF t = c
                         THEN [remaining |-> delay,
                               id |-> id, command |-> command, reject |-> c]
                         ELSE timers[t]]
        /\ pendingRequests' =
              [i \in DOMAIN pendingRequests \cup {id} |->
                  IF i = id THEN [resolve |-> c, reject |-> c, timeout |-> c]
                  ELSE pendingRequests[i]]
        /\ IF sockets[s].readyState = "CONNECTING"
           THEN /\ calls' = Settle(cs, c, "rejected", ErrWsConnecting, NoValue, NoId)
                /\ wire' = wire
           ELSE /\ calls' = cs
                /\ wire' = IF sockets[s].readyState = "OPEN"
                           THEN wire \cup {<<s, JSONstringify(
                                      [id |-> id, command |-> command])>>}
                           ELSE wire
        /\ refused' = refused

\* a send that numbers the requests of every connection from 1
sendWith_perConnection(command, s, delay) ==
    sendAs(command, s, delay,
           Cardinality({c \in DOMAIN calls : calls[c].sock = s}) + 1)

\* `req_${++this.requestId}`
sendWith(command, s, delay) == sendAs(command, s, delay, requestId + 1)

\* a timer that runs for the connect window instead of REQUEST_TIMEOUT
sendBody_shortTimer(command, s) == sendWith(command, s, CONNECT_TIMEOUT)

\* a send whose timer runs for the deadline its caller wants
sendBody_perCall(command, s) == sendWith(command, s, CallTimeout(Len(calls) + 1))

sendBody(command, s) == sendWith(command, s, REQUEST_TIMEOUT)

\* the failed connected check: the async function throws
sendRejected(command, err) ==
    /\ refused' = refused \cup {err}
    /\ UNCHANGED <<requestId, pendingRequests, timers, calls, wire>>

\* a timer callback that clears the whole table instead of its own entry
RequestTimeout_clearAll(c) ==
    /\ ~uncaught
    /\ c \in DOMAIN timers
    /\ timers[c].remaining = 0
    /\ timers' = [t \in DOMAIN timers \ {c} |-> timers[t]]
    /\ pendingRequests' = EmptyMap
    /\ calls' = Settle(calls, timers[c].reject, "rejected",
                       ErrTimeout(timers[c].command), NoValue, NoId)
    /\ UNCHANGED <<variant, peerVars, sockets, slotVars, requestId, refused, wire, stderr, uncaught>>

\* the callback of the setTimeout of send fires
RequestTimeout(c) ==
    /\ ~uncaught
    /\ c \in DOMAIN timers
    /\ timers[c].remaining = 0
    /\ timers' = [t \in DOMAIN timers \ {c} |-> timers[t]]
    /\ pendingRequests' =
          [i \in DOMAIN pendingRequests \ {timers[c].id} |-> pendingRequests[i]]
    /\ calls' = Settle(calls, timers[c].reject, "rejected",
                       ErrTimeout(timers[c].command), NoValue, NoId)
    /\ UNCHANGED <<variant, peerVars, sockets, slotVars, requestId, refused, wire, stderr, uncaught>>

\* ============================================================ Listener
\* PhotoshopBridgeServer.start
Server_start ==
    /\ variant = "Listener" /\ ~uncaught
    /\ ~wss
    /\ wss' = TRUE
    /\ UNCHANGED <<variant, peerVars, sockets, client, ws, connected, connects,
                   bridgeVars, stderr, uncaught>>

\* a listener that keeps the peer it has and turns the newcomer away
Server_on_connection_keepFirst ==
    /\ variant = "Listener" /\ ~uncaught
    /\ wss
    /\ Len(sockets) < MaxSock
    /\ LET s == Len(sockets) + 1
       IN  IF client # NULL
           THEN /\ sockets' = Append(sockets, NewSocket("CLOSING"))
                /\ client' = client
           ELSE /\ sockets' = Append(sockets, NewSocket("OPEN"))
                /\ client' = s
    /\ UNCHANGED <<variant, peerVars, wss, ws, connected, connects, bridgeVars, stderr, uncaught>>

\* wss.on('connection')
Server_on_connection ==
    /\ variant = "Listener" /\ ~uncaught
    /\ wss
    /\ Len(sockets) < MaxSock
    /\ LET s == Len(sockets) + 1
           socks == Append(sockets, NewSocket("OPEN"))
       IN  /\ sockets' =
                 IF client # NULL
                 THEN [Close(socks, client) EXCEPT ![client].evicted =
                          @ \/ socks[client].readyState = "OPEN"]
                 ELSE socks
           /\ client' = s
    /\ UNCHANGED <<variant, peerVars, wss, ws, connected, connects, bridgeVars, stderr, uncaught>>

\* ws.on('message')
Server_on_message(s, data) ==
    /\ variant = "Listener" /\ ~uncaught
    /\ s \in DOMAIN sockets
    /\ sockets[s].readyState \in {"OPEN", "CLOSING"}
    /\ handleMessage(data)
    /\ UNCHANGED <<variant, peerVars, sockets, slotVars>>

\* ws.on('close')
\* the close handler without the `this.client === ws` test of server.ts:84
Server_on_close_unguarded(s) ==
    /\ variant = "Listener" /\ ~uncaught
    /\ s \in DOMAIN sockets
    /\ sockets[s].readyState \in {"OPEN", "CLOSING"}
    /\ sockets' = [sockets EXCEPT ![s].readyState = "CLOSED"]
    /\ client' = NULL
    /\ rejectAllPending
    /\ UNCHANGED <<variant, peerVars, wss, ws, connected, connects, requestId, refused, wire, stderr, uncaught>>

Server_on_close(s) ==
    /\ variant = "Listener" /\ ~uncaught
    /\ s \in DOMAIN sockets
    /\ sockets[s].readyState \in {"OPEN", "CLOSING"}
    /\ sockets' = [sockets EXCEPT ![s].readyState = "CLOSED"]
    /\ IF client = s
       THEN /\ client' = NULL
            /\ rejectAllPending
       ELSE UNCHANGED <<client, pendingRequests, timers, calls>>
    /\ UNCHANGED <<variant, peerVars, wss, ws, connected, connects, requestId, refused, wire, stderr, uncaught>>

\* ws.on('error'): the library has left OPEN and will emit 'close' next
Server_on_error(s) ==
    /\ variant = "Listener" /\ ~uncaught
    /\ s \in DOMAIN sockets
    /\ sockets[s].readyState = "OPEN"
    /\ sockets' = [sockets EXCEPT ![s].readyState = "CLOSING"]
    /\ UNCHANGED <<variant, peerVars, slotVars, bridgeVars, stderr, uncaught>>

\* PhotoshopBridgeServer.stop
Server_stop ==
    /\ variant = "Listener" /\ ~uncaught
    /\ client # NULL \/ wss
    /\ sockets' = IF client # NULL THEN Close(sockets, client) ELSE sockets
    /\ client' = NULL
    /\ wss' = FALSE
    /\ UNCHANGED <<variant, peerVars, ws, connected, connects, bridgeVars, stderr, uncaught>>

\* PhotoshopBridgeServer.isConnected
Server_isConnected ==
    client # NULL /\ sockets[client].readyState = "OPEN"

\* PhotoshopBridgeServer.send
\* the body of send: the connected check, then the rest
Server_sendCore(command) ==
    IF client = NULL \/ sockets[client].readyState # "OPEN"
    THEN sendRejected(command, ErrNoPlugin)
    ELSE sendBody(command, client)

Server_sendOf(command) ==
    /\ variant = "Listener" /\ ~uncaught
    /\ Len(calls) < MaxCalls
    /\ Server_sendCore(command)
    /\ UNCHANGED <<variant, peerVars, sockets, slotVars, stderr, uncaught>>

\* send called by the callers of the workload
Server_send(command) ==
    /\ command = Workload(Len(calls) + 1)
    /\ Server_sendOf(command)

\* ============================================================== Dialer
ErrConnectTimeout == <<"Connection timeout">>
ErrSocket         == <<"socket error">>

\* resolve / reject of the promise returned by connect
SettleConnect(cn, k, st, err) ==
    IF cn[k].state = "pending"
    THEN [cn EXCEPT ![k].state = st, ![k].error = err]
    ELSE cn

\* PhotoshopBridge.connect: the socket it creates and the connect call have
\* the same index
Client_connect ==
    /\ variant = "Dialer" /\ ~uncaught
    /\ Len(sockets) < MaxSock
    /\ sockets' = Append(sockets, NewSocket("CONNECTING"))
    /\ ws' = Len(sockets) + 1
    /\ connects' = Append(connects,
                     [timer |-> TRUE, remaining |-> CONNECT_TIMEOUT,
                      state |-> "pending", error |-> NoError])
    /\ UNCHANGED <<variant, peerVars, wss, client, connected, bridgeVars, stderr, uncaught>>

\* the connectionTimeout callback of connect call k
Client_connectionTimeout(k) ==
    /\ variant = "Dialer" /\ ~uncaught
    /\ k \in DOMAIN connects
    /\ connects[k].timer
    /\ connects[k].remaining = 0
    /\ sockets' = IF ws # NULL THEN Close(sockets, ws) ELSE sockets
    /\ connects' = [SettleConnect(connects, k, "rejected", ErrConnectTimeout)
                       EXCEPT ![k].timer = FALSE, ![k].remaining = 0]
    /\ UNCHANGED <<variant, peerVars, wss, client, ws, connected, bridgeVars, stderr, uncaught>>

\* ws.on('open') of the socket of connect call s
Client_on_open(s) ==
    /\ variant = "Dialer" /\ ~uncaught
    /\ s \in DOMAIN sockets
    /\ sockets[s].readyState = "CONNECTING"
    /\ sockets' = [sockets EXCEPT ![s].readyState = "OPEN"]
    /\ connects' = [SettleConnect(connects, s, "resolved", NoError)
                       EXCEPT ![s].timer = FALSE, ![s].remaining = 0]
    /\ connected' = TRUE
    /\ UNCHANGED <<variant, peerVars, wss, client, ws, bridgeVars, stderr, uncaught>>

\* ws.on('message')
Client_on_message(s, data) ==
    /\ variant = "Dialer" /\ ~uncaught
    /\ s \in DOMAIN sockets
    /\ sockets[s].readyState \in {"OPEN", "CLOSING"}
    /\ ~sockets[s].abort
    /\ handleMessage(data)
    /\ UNCHANGED <<variant, peerVars, sockets, slotVars>>

\* ws.on('close')
Client_on_close(s) ==
    /\ variant = "Dialer" /\ ~uncaught
    /\ s \in DOMAIN sockets
    /\ sockets[s].readyState \in {"OPEN", "CLOSING"}
    /\ ~sockets[s].abort
    /\ sockets' = [sockets EXCEPT ![s].readyState = "CLOSED"]
    /\ connected' = FALSE
    /\ rejectAllPending
    /\ UNCHANGED <<variant, peerVars, wss, client, ws, connects, requestId, refused, wire, stderr, uncaught>>

\* ws.on('error').  For a handshake that failed or was aborted by close()
\* the library emits 'error' and 'close' in one call, so the close handler
\* runs in the same step; an open socket that fails leaves OPEN and gets its
\* 'close' later
Client_on_error(s) ==
    /\ variant = "Dialer" /\ ~uncaught
    /\ s \in DOMAIN sockets
    /\ connects' = [SettleConnect(connects, s, "rejected", ErrSocket)
                       EXCEPT ![s].timer = FALSE, ![s].remaining = 0]
    /\ \/ /\ sockets[s].readyState = "CONNECTING" \/ sockets[s].abort
          /\ sockets' = [sockets EXCEPT ![s].readyState = "CLOSED", ![s].abort = FALSE]
          /\ connected' = FALSE
          /\ rejectAllPending
       \/ /\ sockets[s].readyState = "OPEN"
          /\ sockets' = [sockets EXCEPT ![s].readyState = "CLOSING"]
          /\ UNCHANGED <<connected, pendingRequests, timers, calls>>
    /\ UNCHANGED <<variant, peerVars, wss, client, ws, requestId, refused, wire, stderr, uncaught>>

\* PhotoshopBridge.disconnect
Client_disconnect ==
    /\ variant = "Dialer" /\ ~uncaught
    /\ ws # NULL
    /\ sockets' = Close(sockets, ws)
    /\ ws' = NULL
    /\ connected' = FALSE
    /\ UNCHANGED <<variant, peerVars, wss, client, connects, bridgeVars, stderr, uncaught>>

\* PhotoshopBridge.isConnected
Client_isConnected == connected

\* PhotoshopBridge.send
Client_send(command) ==
    /\ variant = "Dialer" /\ ~uncaught
    /\ Len(calls) < MaxCalls
    /\ command = Workload(Len(calls) + 1)
    /\ IF ~connected \/ ws = NULL
       THEN sendRejected(command, ErrNotConnected)
       ELSE sendBody(command, ws)
    /\ UNCHANGED <<variant, peerVars, sockets, slotVars, stderr, uncaught>>

\* ================================================================ clock
\* time passes while the loop is idle; a timer that is due runs first.  Time
\* is only read through timers, so it is not counted while none is armed
TimerArmed ==
    \/ DOMAIN timers # {}
    \/ \E k \in DOMAIN connects : connects[k].timer

Left(r) == IF r > Tick THEN r - Tick ELSE 0

Advance ==
    /\ ~uncaught
    /\ TimerArmed
    /\ \A t \in DOMAIN timers : timers[t].remaining > 0
    /\ \A k \in DOMAIN connects : connects[k].timer => connects[k].remaining > 0
    /\ timers' = [t \in DOMAIN timers |->
                     [timers[t] EXCEPT !.remaining = Left(@)]]
    /\ connects' = [k \in DOMAIN connects |->
                     IF connects[k].timer
                     THEN [connects[k] EXCEPT !.remaining = Left(@)]
                     ELSE connects[k]]
    /\ calls' = [c \in DOMAIN calls |->
                     IF calls[c].state = "waiting"
                     THEN [calls[c] EXCEPT !.waited = @ + Tick]
                     ELSE calls[c]]
    /\ UNCHANGED <<variant, peerVars, sockets, wss, client, ws, connected,
                   requestId, pendingRequests, refused, wire, stderr, uncaught>>

\* ================================================================= spec
Init ==
    /\ variant \in {"Listener", "Dialer"}
    /\ sockets = << >>
    /\ wss = FALSE
    /\ client = NULL
    /\ ws = NULL
    /\ connected = FALSE
    /\ connects = << >>
    /\ requestId = 0
    /\ pendingRequests = EmptyMap
    /\ timers = EmptyMap
    /\ calls = << >>
    /\ refused = {}
    /\ wire = {}
    /\ stderr = NoLog
    /\ uncaught = FALSE
    /\ psockets = << >>
    /\ pws = NULL
    /\ status = "disconnected"
    /\ autoReconnect = TRUE
    /\ reconnectInterval = FALSE
    /\ jobs = << >>
    /\ pthrown = {}
    /\ rsockets = << >>
    /\ uxpClient = NULL
    /\ mcpClient = NULL
    /\ relayed = << >>
    /\ toolCalls = << >>

ListenerStep ==
    \/ Server_start
    \/ Server_on_connection
    \/ \E s \in 1..MaxSock, data \in Frames : Server_on_message(s, data)
    \/ \E s \in 1..MaxSock : Server_on_close(s)
    \/ \E s \in 1..MaxSock : Server_on_error(s)
    \/ Server_stop
    \/ \E command \in Commands : Server_send(command)

DialerStep ==
    \/ Client_connect
    \/ \E k \in 1..MaxSock : Client_connectionTimeout(k)
    \/ \E s \in 1..MaxSock : Client_on_open(s)
    \/ \E s \in 1..MaxSock, data \in Frames : Client_on_message(s, data)
    \/ \E s \in 1..MaxSock : Client_on_close(s)
    \/ \E s \in 1..MaxSock : Client_on_error(s)
    \/ Client_disconnect
    \/ \E command \in Commands : Client_send(command)

TimerStep ==
    \/ \E c \in 1..MaxCalls : RequestTimeout(c)
    \/ Advance

Next == ListenerStep \/ DialerStep \/ TimerStep

Spec == Init /\ [][Next]_vars

\* one Listener instance
InitListener == Init /\ variant = "Listener"
NextListener == ListenerStep \/ TimerStep
SpecListener == InitListener /\ [][NextListener]_vars

\* one Listener instance whose peer answers with every shape of response
NextAllResponses ==
    \/ Server_start
    \/ Server_on_connection
    \/ \E command \in Commands : Server_send(command)
    \/ \E s \in 1..MaxSock, data \in AllFrames : Server_on_message(s, data)
SpecAllResponses == InitListener /\ [][NextAllResponses]_vars

\* ============================================================== properties
IsTimeout(err) == Head(err) = "Request timeout: "

\* the slot marked absent
SlotAbsent == IF variant = "Listener" THEN client = NULL ELSE ~connected

EntryCall(id) == calls[pendingRequests[id].resolve]

Waiting == {c \in DOMAIN calls : calls[c].state = "waiting"}

\* C1: every call of send that passed the connected check is settled by
\* exactly one invocation of resolve/reject, and by one of three causes: the
\* response carrying its id, its own timeout, or 'Connection closed'; while
\* it is unsettled its timer is armed, so it cannot stay unsettled forever.
C1_SettledOnceByOneOfThree ==
    \A c \in DOMAIN calls :
        /\ calls[c].settles <= 1
        /\ calls[c].state = "waiting" => c \in DOMAIN timers
        /\ calls[c].state = "resolved" => calls[c].via = calls[c].id
        /\ calls[c].state = "rejected" =>
              calls[c].error \in {ErrTimeout(calls[c].command), ErrConnectionClosed}

\* C2: whenever a call becomes resolved, the response that resolved it carries
\* the id of that call's own request, and no other call is settled or changed
\* by that step, whatever the order of the responses.
C2_MatchedIndependently ==
    [][\A c \in DOMAIN calls' :
          ( /\ calls'[c].state = "resolved"
            /\ c \in DOMAIN calls => calls[c].state = "waiting" )
          => /\ calls'[c].via = calls'[c].id
             /\ \A d \in DOMAIN calls : d # c => calls'[d] = calls[d]]_vars

\* two calls in flight together, answered in the reverse order of issue
C2_Witness ==
    /\ Len(calls) >= 2
    /\ calls[1].state = "waiting" /\ calls[1].wrote = "sent"
    /\ calls[2].state = "resolved" /\ calls[2].via = ReqId(2)

\* C3: a send that finds the Connection Slot without an open transport fails
\* with the not-connected error and consumes no id, creates no Pending Entry
\* or timer and writes nothing: every call that got past the check found an
\* open transport and its request was sent on it.
C3_NotConnectedFailsAtOnce ==
    /\ refused \subseteq {ErrNoPlugin, ErrNotConnected}
    /\ \A c \in DOMAIN calls :
          /\ calls[c].wrote = "sent"
          /\ <<calls[c].sock,
               JSONstringify([id |-> calls[c].id, command |-> calls[c].command])>>
                \in wire

\* C4: once the close of a transport has been delivered, no Pending Entry of
\* a call that was issued on it is left in the table and none of those calls
\* is still waiting, whichever way the connection ended.
C4_CloseFailsAllPending ==
    /\ \A id \in DOMAIN pendingRequests :
          sockets[EntryCall(id).sock].readyState # "CLOSED"
    /\ \A c \in Waiting : sockets[calls[c].sock].readyState # "CLOSED"
    /\ \A t \in DOMAIN timers :
          sockets[calls[timers[t].reject].sock].readyState # "CLOSED"

\* C5: in the Listener, a call that was pending on a transport evicted by a
\* newer inbound connection has failed with 'Connection closed' by the time
\* the evicted transport has closed: it does not go on waiting for its timer
\* and is never failed by the timeout after that.
C5_EvictionFailsPending ==
    variant = "Listener" =>
        \A c \in DOMAIN calls :
            ( /\ sockets[calls[c].sock].evicted
              /\ sockets[calls[c].sock].readyState = "CLOSED" )
            => /\ calls[c].state # "waiting"
               /\ calls[c].id \notin DOMAIN pendingRequests

\* C6: in the Listener every inbound connection is admitted in the step it
\* arrives in: it becomes the slot's transport, open, and the prior transport
\* is no longer open; no transport but the slot's is ever open; and a send
\* that passes the check writes its request to the slot's transport, which is
\* the one admitted last.
C6_LastWriterWins ==
    /\ [](variant = "Listener" =>
            /\ client \in {NULL, Len(sockets)}
            /\ \A s \in DOMAIN sockets :
                  s # client => sockets[s].readyState # "OPEN")
    /\ [][variant = "Listener" /\ Len(sockets') > Len(sockets) =>
            /\ client' = Len(sockets')
            /\ sockets'[client'].readyState = "OPEN"
            /\ client # NULL => sockets'[client].readyState # "OPEN"]_vars
    /\ [][variant = "Listener" /\ Len(calls') > Len(calls) =>
            LET call == calls'[Len(calls')]
            IN  /\ call.sock = Len(sockets)
                /\ call.wrote = "sent"
                /\ <<Len(sockets),
                     JSONstringify([id |-> call.id, command |-> call.command])>>
                      \in wire']_vars

\* a second connection evicted the first, and a send went out on the second
C6_Witness ==
    /\ variant = "Listener"
    /\ Len(sockets) = 2 /\ client = 2
    /\ sockets[1].evicted
    /\ \E c \in DOMAIN calls :
          /\ calls[c].sock = 2
          /\ <<2, JSONstringify([id |-> calls[c].id, command |-> calls[c].command])>>
                \in wire

\* the frames of C7: a response whose id has no Pending Entry
Unmatched(data) ==
    /\ ~JSONparse(data).threw
    /\ ~GetId(JSONparse(data).value).threw
    /\ JSONparse(data).value.hasId
    /\ GetId(JSONparse(data).value).id \notin DOMAIN pendingRequests

\* the frames of C9: not JSON, or JSON that is no object with an id
Malformed(data) ==
    \/ JSONparse(data).threw
    \/ ~JSONparse(data).value.hasId

OnMessage(s, data) == Server_on_message(s, data) \/ Client_on_message(s, data)

\* C7: receiving a response whose id matches no Pending Entry changes neither
\* the table, nor a timer, nor any caller, and raises no exception; and a
\* caller that is settled (by its timeout, say) is never changed again.
C7_UnmatchedDropped ==
    /\ [][\A s \in DOMAIN sockets, data \in Frames :
            OnMessage(s, data) /\ Unmatched(data) =>
               UNCHANGED <<pendingRequests, timers, calls, requestId, wire,
                           uncaught>>]_vars
    /\ [][\A c \in DOMAIN calls :
            calls[c].state # "waiting" =>
               /\ calls'[c].state = calls[c].state
               /\ calls'[c].error = calls[c].error
               /\ calls'[c].value = calls[c].value]_vars

\* a response carrying the id of a call that has its timeout error was
\* dropped as unknown; the other call is still pending with its timer
C7_Witness ==
    /\ \E c \in DOMAIN calls :
          /\ calls[c].state = "rejected" /\ IsTimeout(calls[c].error)
          /\ calls[c].id \notin DOMAIN pendingRequests
          /\ stderr = LogUnknown(calls[c].id)
    /\ \E d \in Waiting : calls[d].id \in DOMAIN pendingRequests /\ d \in DOMAIN timers

\* C8: a call fails with the timeout error only after it waited the whole
\* REQUEST_TIMEOUT, the error names the call's own command, and its Pending
\* Entry is gone; no call waits longer than REQUEST_TIMEOUT, and one that has
\* waited that long has its timer due.
C8_TimeoutAtDeadline ==
    \A c \in DOMAIN calls :
        /\ (calls[c].state = "rejected" /\ IsTimeout(calls[c].error)) =>
              /\ calls[c].error = ErrTimeout(calls[c].command)
              /\ calls[c].waited >= REQUEST_TIMEOUT
              /\ calls[c].id \notin DOMAIN pendingRequests
              /\ c \notin DOMAIN timers
        /\ calls[c].state = "waiting" =>
              /\ calls[c].waited <= REQUEST_TIMEOUT
              /\ c \in DOMAIN timers
              /\ timers[c].remaining + calls[c].waited = REQUEST_TIMEOUT

\* a call timed out on a connection that is still open
C8_Witness ==
    \E c \in DOMAIN calls :
        /\ calls[c].state = "rejected"
        /\ calls[c].error = ErrTimeout(calls[c].command)
        /\ calls[c].waited = REQUEST_TIMEOUT
        /\ calls[c].wrote = "sent"
        /\ sockets[calls[c].sock].readyState = "OPEN"

\* C9: receiving a frame that is no response (not JSON, or JSON without an
\* id) changes neither the table, nor a timer, nor any caller; no exception
\* leaves the handler, so the receive loop keeps running.
C9_MalformedDropped ==
    /\ []~uncaught
    /\ [][\A s \in DOMAIN sockets, data \in Frames :
            OnMessage(s, data) /\ Malformed(data) =>
               UNCHANGED <<pendingRequests, timers, calls, requestId, wire,
                           refused, uncaught>>]_vars

\* a parse failure was logged while a call is pending, untouched
C9_Witness ==
    /\ stderr = LogParse
    /\ ~uncaught
    /\ \E c \in Waiting :
          /\ calls[c].id \in DOMAIN pendingRequests
          /\ c \in DOMAIN timers

\* C10: whenever the Connection Slot is marked absent (Listener: client is
\* null; Dialer: connected is false) the Pending-Request Table is empty.
C10_AbsentImpliesEmpty ==
    SlotAbsent => DOMAIN pendingRequests = {}

\* C11: in a step in which the timer of a call fires (a waiting call gets its
\* timeout error), only that call's Pending Entry and timer are removed, every
\* other call, Pending Entry and timer is unchanged, and the sockets and the
\* Connection Slot are unchanged.
C11_TimerIndependent ==
    [][\A c \in DOMAIN calls :
          ( /\ calls[c].state = "waiting"
            /\ calls'[c].state = "rejected" /\ IsTimeout(calls'[c].error) )
          => /\ \A d \in DOMAIN calls : d # c => calls'[d] = calls[d]
             /\ DOMAIN pendingRequests' = DOMAIN pendingRequests \ {calls[c].id}
             /\ \A i \in DOMAIN pendingRequests' :
                    pendingRequests'[i] = pendingRequests[i]
             /\ DOMAIN timers' = DOMAIN timers \ {c}
             /\ \A t \in DOMAIN timers' : timers'[t] = timers[t]
             /\ UNCHANGED <<sockets, slotVars, requestId, wire>>]_vars

\* one call has its timeout error on an open connection while a later call is
\* still pending with time left on its own timer
C11_Witness ==
    \E c, d \in DOMAIN calls :
        /\ calls[c].state = "rejected" /\ IsTimeout(calls[c].error)
        /\ sockets[calls[c].sock].readyState = "OPEN"
        /\ calls[d].state = "waiting"
        /\ calls[d].id \in DOMAIN pendingRequests
        /\ d \in DOMAIN timers /\ timers[d].remaining > 0

\* C12: a call whose Pending Entry was found for a response is resolved, not
\* rejected, and the value it gets has exactly that response's ok, changed,
\* data, artifacts, warnings and error, for ok true and for ok false.
C12_FieldsVerbatim ==
    \A c \in DOMAIN calls :
        calls[c].response # NoValue =>
            LET response == calls[c].response
            IN  /\ calls[c].state = "resolved"
                /\ calls[c].error = NoError
                /\ calls[c].value =
                      <<[ok |-> response.ok, changed |-> response.changed,
                         data |-> response.data,
                         artifacts |-> response.artifacts,
                         warnings |-> response.warnings,
                         error |-> response.error]>>

\* a call was resolved with a response that is not ok, reports a change and
\* carries an error
C12_Witness ==
    \E c \in DOMAIN calls :
        /\ calls[c].state = "resolved"
        /\ calls[c].response \in AllResponses
        /\ calls[c].value = <<[ok |-> FALSE, changed |-> TRUE,
                               data |-> Absent, artifacts |-> Absent,
                               warnings |-> Absent, error |-> <<"error">>]>>

C14_ConnectTimeout ==
    variant = "Dialer" =>
        \A k \in DOMAIN connects :
            /\ (connects[k].state = "rejected" /\ connects[k].error = ErrConnectTimeout)
                  => sockets[k].readyState \in {"CLOSING", "CLOSED"}
            /\ connects[k].state = "resolved" => ~connects[k].timer

\* C16: the ids one Bridge instance issues are strictly increasing in issue
\* order, also over reconnections, so no two calls share an id; every Pending
\* Entry belongs to the call that carries its id; and no step replaces the
\* entry of an id that stays in the table.
C16_IdsIncreasing ==
    /\ [](/\ \A c, d \in DOMAIN calls : c < d => calls[c].id[2] < calls[d].id[2]
          /\ \A id \in DOMAIN pendingRequests : EntryCall(id).id = id
          /\ \A c \in DOMAIN calls : calls[c].id[2] <= requestId)
    /\ [][/\ requestId' >= requestId
          /\ \A id \in DOMAIN pendingRequests \cap DOMAIN pendingRequests' :
                pendingRequests'[id] = pendingRequests[id]]_vars

\* a second request was issued on a new connection while the request issued
\* on the previous connection is still outstanding
C16_Witness ==
    /\ Len(calls) >= 2
    /\ calls[1].sock # calls[2].sock
    /\ calls[1].id \in DOMAIN pendingRequests
    /\ calls[2].id \in DOMAIN pendingRequests
    /\ calls[1].state = "waiting" /\ calls[2].state = "waiting"

\* ======================================================================
\* The UXP plugin: packages/ps-uxp-bridge/main.js (the same dispatch code is
\* in unnamed/part_004)
\* ======================================================================

MaxJobs == 2           \* inbound messages the plugin takes up in one behaviour
MaxPluginSock == 3     \* WebSocket objects the plugin creates in one behaviour

\* r[f] of a JavaScript object: undefined when the property is not there
Get(r, f) == IF f \in DOMAIN r THEN r[f] ELSE Absent

\* what commands[command] evaluates to.  commands is the plain object {} with
\* the handlers assigned to it, so a lookup also finds what Object.prototype
\* holds:
\*   "own"       : a handler the plugin registered (an async function)
\*   "Object"    : commands["constructor"], the function Object
\*   "prototype" : commands["__proto__"], the object Object.prototype
\*   "undefined" : no such property anywhere on the chain
commands ==
    [c \in {"app.get_info", "constructor", "__proto__", "no.such"} |->
        IF c = "app.get_info" THEN "own"
        ELSE IF c = "constructor" THEN "Object"
        ELSE IF c = "__proto__" THEN "prototype"
        ELSE "undefined"]

\* the commands the plugin registered: the command table
Registered == {c \in DOMAIN commands : commands[c] = "own"}

\* the messages a peer can send to the plugin: not JSON, the JSON text null,
\* and request objects, with or without params
PluginRequests ==
    { [kind |-> "object", id |-> ReqId(1), command |-> c] : c \in DOMAIN commands }
    \cup { [kind |-> "object", id |-> ReqId(1), command |-> c,
            params |-> [id |-> ReqId(2)]] : c \in DOMAIN commands }

PluginFrames ==
    { [text |-> "garbage", value |-> [kind |-> "null"]] }
    \cup { JSONstringify([kind |-> "null"]) }
    \cup { JSONstringify(r) : r \in PluginRequests }

\* { ok: false, changed: false, error: `Unknown command: ${command}` }
UnknownCommand(command) ==
    [ok |-> FALSE, changed |-> FALSE, error |-> <<"Unknown command: ", command>>]

\* { ok: false, changed: false, error: error.message }
ErrorResponse(message) ==
    [ok |-> FALSE, changed |-> FALSE, error |-> <<message>>]

\* what a registered handler returns for a request: its data names the
\* request it was computed for
HandlerResult(job) ==
    [ok |-> TRUE, changed |-> FALSE, data |-> <<job.sock, job.id, job.command>>]

\* JSON.stringify({ id, ...response }): the properties of response are spread
\* after id, so an id of the response replaces the one of the request
PluginPayload(id, response) ==
    LET i == IF "id" \in DOMAIN response THEN response.id ELSE id
    IN  JSONstringify(
          [kind |-> "object", hasId |-> i # Absent, id |-> i,
           ok |-> Get(response, "ok"), changed |-> Get(response, "changed"),
           data |-> Get(response, "data"),
           artifacts |-> Get(response, "artifacts"),
           warnings |-> Get(response, "warnings"),
           error |-> Get(response, "error")])

\* sendResponse(id, response): writes on the module-level ws as it is when
\* the response is ready; nothing when that is null or not OPEN.
\* The value is what is appended to the job's writes.
sendResponse(id, response) ==
    IF pws = NULL \/ psockets[pws].readyState # "OPEN"
    THEN << >>
    ELSE << <<pws, PluginPayload(id, response)>> >>

\* a message event the plugin has taken up
\*   request : the message parsed to something that destructures
\*   command : the key looked up in commands ("undefined" when the request
\*             has no command: commands[undefined] reads that key)
\*   ran     : what was called as the handler ("none" when nothing was)
\*   failed  : the call of the handler threw, or its promise rejected
\*   threw   : an exception escaped handleMessage
\*   wrote   : the responses written for it, <<socket, payload>>
NewJob(p, data) ==
    [sock |-> p, data |-> data, request |-> FALSE, id |-> Absent,
     command |-> "undefined", state |-> "done", ran |-> "none",
     failed |-> FALSE, threw |-> FALSE, wrote |-> << >>]

\* handleMessage(event) up to its first await that waits for Photoshop
handleMessageJob(p, data) ==
    LET parsed  == JSONparse(data)
        request == parsed.value
        job     == NewJob(p, data)
    IN  IF parsed.threw
        THEN job                                   \* logged, return
        ELSE IF "kind" \in DOMAIN request /\ request.kind = "null"
        THEN [job EXCEPT !.threw = TRUE]           \* destructuring null
        ELSE
          LET id      == Get(request, "id")
              command == IF "command" \in DOMAIN request
                         THEN request.command ELSE "undefined"
              params  == IF "params" \in DOMAIN request
                         THEN request.params
                         ELSE [x \in {} |-> Absent]      \* params || {}
              handler == IF command \in DOMAIN commands
                         THEN commands[command] ELSE "undefined"
              j       == [job EXCEPT !.request = TRUE, !.id = id,
                                     !.command = command]
          IN  IF handler = "undefined"
              THEN [j EXCEPT !.wrote = sendResponse(id, UnknownCommand(command))]
              ELSE IF handler = "prototype"
              THEN [j EXCEPT !.failed = TRUE, !.wrote =
                       sendResponse(id, ErrorResponse("handler is not a function"))]
              ELSE IF handler = "Object"
              THEN [j EXCEPT !.ran = "Object",
                             !.wrote = sendResponse(id, params)]
              ELSE [j EXCEPT !.ran = "own", !.state = "running"]

\* a socket the plugin creates.  closedBy names the function of the plugin
\* that called close() on it ("none" when nothing did)
NewPluginSocket ==
    [readyState |-> "CONNECTING", abort |-> FALSE, evicted |-> FALSE,
     closedBy |-> "none"]

\* ws.close() called by the function by
PluginClose(by) ==
    IF pws # NULL
    THEN [Close(psockets, pws) EXCEPT ![pws].closedBy = by]
    ELSE psockets

\* connect()
connect ==
    /\ autoReconnect' = TRUE
    /\ psockets' = Append(PluginClose("connect"), NewPluginSocket)
    /\ status' = "connecting"
    /\ pws' = Len(psockets) + 1

\* the Connect button: updateStatus enables it while the status is
\* "disconnected"
Plugin_connect ==
    /\ status = "disconnected"
    /\ Len(psockets) < MaxPluginSock
    /\ connect
    /\ UNCHANGED <<serverVars, relayVars, reconnectInterval, jobs, pthrown>>

\* ws.onopen of socket p: reads ws.readyState of the module-level ws
Plugin_onopen(p) ==
    /\ p \in DOMAIN psockets
    /\ psockets[p].readyState = "CONNECTING"
    /\ psockets' = [psockets EXCEPT ![p].readyState = "OPEN"]
    /\ status' = "connected"
    /\ IF pws = NULL
       THEN /\ pthrown' = pthrown \cup {"onopen"}
            /\ reconnectInterval' = reconnectInterval
       ELSE /\ pthrown' = pthrown
            /\ reconnectInterval' = FALSE
    /\ UNCHANGED <<serverVars, relayVars, pws, autoReconnect, jobs>>

\* ws.onmessage of socket p; message events are delivered only while the
\* socket is OPEN
Plugin_onmessage(p, data) ==
    /\ p \in DOMAIN psockets
    /\ psockets[p].readyState = "OPEN"
    /\ Len(jobs) < MaxJobs
    /\ LET job == handleMessageJob(p, data)
       IN  /\ jobs' = Append(jobs, job)
           /\ pthrown' = IF job.threw THEN pthrown \cup {"handleMessage"}
                         ELSE pthrown
    /\ UNCHANGED <<serverVars, relayVars, psockets, pws, status, autoReconnect,
                   reconnectInterval>>

\* the handler of job j settles: await handler(params || {}) returns its
\* result, or throws and the catch block answers with the message
Plugin_handlerDone(j, returned) ==
    /\ j \in DOMAIN jobs
    /\ jobs[j].state = "running"
    /\ jobs' = [jobs EXCEPT
                  ![j].state = "done",
                  ![j].failed = ~returned,
                  ![j].wrote = IF returned
                               THEN sendResponse(jobs[j].id, HandlerResult(jobs[j]))
                               ELSE sendResponse(jobs[j].id, ErrorResponse("thrown"))]
    /\ UNCHANGED <<serverVars, relayVars, psockets, pws, status, autoReconnect,
                   reconnectInterval, pthrown>>

\* an onclose that starts the reconnect timer whatever autoReconnect says
Plugin_onclose_always(p) ==
    /\ p \in DOMAIN psockets
    /\ psockets[p].readyState # "CLOSED"
    /\ psockets' = [psockets EXCEPT ![p].readyState = "CLOSED", ![p].abort = FALSE]
    /\ status' = "disconnected"
    /\ pws' = NULL
    /\ reconnectInterval' = TRUE
    /\ UNCHANGED <<serverVars, relayVars, autoReconnect, jobs, pthrown>>

\* ws.onclose of socket p
Plugin_onclose(p) ==
    /\ p \in DOMAIN psockets
    /\ psockets[p].readyState # "CLOSED"
    /\ psockets' = [psockets EXCEPT ![p].readyState = "CLOSED", ![p].abort = FALSE]
    /\ status' = "disconnected"
    /\ pws' = NULL
    /\ reconnectInterval' = (reconnectInterval \/ autoReconnect)
    /\ UNCHANGED <<serverVars, relayVars, autoReconnect, jobs, pthrown>>

\* the setInterval callback of onclose, every RECONNECT_DELAY
Plugin_reconnectInterval ==
    /\ reconnectInterval
    /\ IF pws = NULL \/ psockets[pws].readyState = "CLOSED"
       THEN /\ Len(psockets) < MaxPluginSock
            /\ connect
            /\ reconnectInterval' = reconnectInterval
       ELSE /\ psockets[pws].readyState = "OPEN"
            /\ reconnectInterval' = FALSE
            /\ UNCHANGED <<psockets, pws, status, autoReconnect>>
    /\ UNCHANGED <<serverVars, relayVars, jobs, pthrown>>

\* disconnect(): the Disconnect button, enabled while the status is
\* "connected"
Plugin_disconnect ==
    /\ status = "connected"
    /\ autoReconnect' = FALSE
    /\ reconnectInterval' = FALSE
    /\ psockets' = PluginClose("disconnect")
    /\ pws' = NULL
    /\ status' = "disconnected"
    /\ UNCHANGED <<serverVars, relayVars, jobs, pthrown>>

\* the plugin on its own, fed by a peer that sends any of PluginFrames
NextPlugin ==
    \/ Plugin_connect
    \/ \E p \in 1..MaxPluginSock : Plugin_onopen(p)
    \/ \E p \in 1..MaxPluginSock : \E data \in PluginFrames : Plugin_onmessage(p, data)
    \/ \E j \in 1..MaxJobs : \E returned \in BOOLEAN : Plugin_handlerDone(j, returned)
    \/ \E p \in 1..MaxPluginSock : Plugin_onclose(p)
    \/ Plugin_reconnectInterval
    \/ Plugin_disconnect

SpecPlugin == InitListener /\ [][NextPlugin]_vars

\* ======================================================================
\* A session: the Listener and the plugin connected to each other.  The
\* n-th socket the plugin creates is the n-th connection the Listener
\* accepts; what one side writes on it is what the other side receives.
\* ======================================================================

\* the MCP server process ends and is started again: index.ts constructs a
\* new PhotoshopBridgeServer and starts it.  The sockets of the old process
\* are closed by its exit; calls and wire keep what the old one did.
Server_restart ==
    /\ variant = "Listener"
    /\ wss
    /\ sockets' = [s \in DOMAIN sockets |->
                      [sockets[s] EXCEPT !.readyState = "CLOSED"]]
    /\ client' = NULL
    /\ wss' = TRUE
    /\ requestId' = 0
    /\ pendingRequests' = EmptyMap
    /\ timers' = EmptyMap
    /\ stderr' = NoLog
    /\ uncaught' = FALSE
    /\ UNCHANGED <<variant, peerVars, ws, connected, connects, calls, refused, wire>>

\* the Listener accepts the next connection the plugin has started
Session_connection ==
    /\ Len(sockets) < Len(psockets)
    /\ Server_on_connection

\* the handshake of the plugin's socket p completes
Session_onopen(p) ==
    /\ p <= Len(sockets)
    /\ Plugin_onopen(p)

\* a tool calls send with a command the plugin has a handler for
Session_send ==
    \E command \in Registered : Server_sendOf(command)

\* a request the Listener wrote on connection p reaches the plugin, once
Session_request(p) ==
    \E data \in {w[2] : w \in {x \in wire : x[1] = p}} :
        /\ \A j \in DOMAIN jobs : ~(jobs[j].sock = p /\ jobs[j].data = data)
        /\ Plugin_onmessage(p, data)

\* a response the plugin wrote on its socket s reaches the Listener
Session_response(s) ==
    \E j \in DOMAIN jobs : \E k \in DOMAIN jobs[j].wrote :
        /\ jobs[j].wrote[k][1] = s
        /\ Server_on_message(s, jobs[j].wrote[k][2])

NextSession ==
    \/ Server_start
    \/ Server_restart
    \/ Session_connection
    \/ Session_send
    \/ \E s \in 1..MaxSock : Session_response(s)
    \/ \E s \in 1..MaxSock : Server_on_close(s)
    \/ Plugin_connect
    \/ \E p \in 1..MaxPluginSock : Session_onopen(p)
    \/ \E p \in 1..MaxPluginSock : Session_request(p)
    \/ \E j \in 1..MaxJobs : \E returned \in BOOLEAN : Plugin_handlerDone(j, returned)
    \/ \E p \in 1..MaxPluginSock : Plugin_onclose(p)
    \/ Plugin_reconnectInterval

SpecSession == InitListener /\ [][NextSession]_vars

\* ======================================================================
\* The relay: scripts/ws-bridge-server.js
\* ======================================================================

MaxRelaySock == 3      \* connections the relay accepts in one behaviour
MaxRelayed == 2        \* messages the relay receives in one behaviour

Roles == {"mcp", "uxp"}

\* clientType === 'mcp' ? 'UXP' : 'MCP'
OtherRole(role) == IF role = "mcp" THEN "uxp" ELSE "mcp"

\* a text frame: what send(string) puts on a connection
TextFrame(text) == [isBinary |-> FALSE, text |-> text]

\* the frames the two peers send through the relay: both write the string
\* JSON.stringify returns, so every frame is a text frame
RelayMessages == {TextFrame("request"), TextFrame("response")}

\* data.toString(): the bytes of the frame decoded as UTF-8
toString(data) == data.text

\* the module-level variable that holds the connection of a role
ClientOf(role) == IF role = "mcp" THEN mcpClient ELSE uxpClient

\* the connections of a role that are open
OpenOf(role) ==
    {s \in DOMAIN rsockets :
        rsockets[s].role = role /\ rsockets[s].readyState = "OPEN"}

\* a relay that keeps what it could not forward and hands it to the next
\* connection of the target role
Relay_connection_flush(role) ==
    /\ Len(rsockets) < MaxRelaySock
    /\ rsockets' = Append(rsockets, [role |-> role, readyState |-> "OPEN"])
    /\ IF role = "mcp"
       THEN mcpClient' = Len(rsockets) + 1 /\ uxpClient' = uxpClient
       ELSE uxpClient' = Len(rsockets) + 1 /\ mcpClient' = mcpClient
    /\ relayed' = [m \in DOMAIN relayed |->
                     IF relayed[m].sent = << >> /\ rsockets[relayed[m].from].role # role
                     THEN [relayed[m] EXCEPT !.sent =
                             << <<Len(rsockets) + 1, TextFrame(toString(relayed[m].data))>> >>]
                     ELSE relayed[m]]
    /\ UNCHANGED <<serverVars, pluginVars>>

\* wss.on('connection') with req.url deciding the role
Relay_connection(role) ==
    /\ Len(rsockets) < MaxRelaySock
    /\ rsockets' = Append(rsockets, [role |-> role, readyState |-> "OPEN"])
    /\ IF role = "mcp"
       THEN mcpClient' = Len(rsockets) + 1 /\ uxpClient' = uxpClient
       ELSE uxpClient' = Len(rsockets) + 1 /\ mcpClient' = mcpClient
    /\ UNCHANGED <<serverVars, pluginVars, relayed>>

\* ws.on('message') of connection s.  The entry appended to relayed keeps
\*   open : the open connections of the other role when the message arrived
\*   sent : the send calls made for it, <<connection, text>>
Relay_message(s, data) ==
    /\ s \in DOMAIN rsockets
    /\ rsockets[s].readyState = "OPEN"
    /\ Len(relayed) < MaxRelayed
    /\ LET clientType == rsockets[s].role
           message    == toString(data)
           target     == ClientOf(OtherRole(clientType))
       IN  relayed' = Append(relayed,
              [from |-> s, data |-> data, open |-> OpenOf(OtherRole(clientType)),
               sent |-> IF target # NULL /\ rsockets[target].readyState = "OPEN"
                        THEN << <<target, TextFrame(message)>> >>
                        ELSE << >>])
    /\ UNCHANGED <<serverVars, pluginVars, rsockets, uxpClient, mcpClient>>

\* the peer of connection s starts the closing handshake, or the connection
\* breaks: readyState leaves OPEN before 'close' is emitted
Relay_closing(s) ==
    /\ s \in DOMAIN rsockets
    /\ rsockets[s].readyState = "OPEN"
    /\ rsockets' = [rsockets EXCEPT ![s].readyState = "CLOSING"]
    /\ UNCHANGED <<serverVars, pluginVars, uxpClient, mcpClient, relayed>>

\* ws.on('close') of connection s
Relay_close(s) ==
    /\ s \in DOMAIN rsockets
    /\ rsockets[s].readyState # "CLOSED"
    /\ rsockets' = [rsockets EXCEPT ![s].readyState = "CLOSED"]
    /\ IF rsockets[s].role = "mcp"
       THEN mcpClient' = NULL /\ uxpClient' = uxpClient
       ELSE uxpClient' = NULL /\ mcpClient' = mcpClient
    /\ UNCHANGED <<serverVars, pluginVars, relayed>>

NextRelay ==
    \/ \E role \in Roles : Relay_connection(role)
    \/ \E s \in 1..MaxRelaySock : \E data \in RelayMessages : Relay_message(s, data)
    \/ \E s \in 1..MaxRelaySock : Relay_closing(s)
    \/ \E s \in 1..MaxRelaySock : Relay_close(s)

SpecRelay == InitListener /\ [][NextRelay]_vars

\* ======================================================================
\* The tool registry: packages/mcp-server/src/tools (registry.ts is
\* unnamed/part_000, the layer tools are in logging/logger.ts)
\* ======================================================================

MaxToolCalls == 2      \* calls of callTool or of a handler in one behaviour

\* a JavaScript value of an argument object: <<typeof, value>>
Num(n)  == <<"number", n>>
Str(s)  == <<"string", s>>
Bool(b) == <<"boolean", b>>

\* the object with the properties of f that are there
Object(f) == [k \in {k \in DOMAIN f : f[k] # Absent} |-> f[k]]

\* one field of a z.object schema
\*   optional : .optional()        hasDefault : .default(value)
\*   ranged   : .min(min).max(max)
Field(type, optional, ranged, min, max, hasDefault, default) ==
    [type |-> type, optional |-> optional, ranged |-> ranged,
     min |-> min, max |-> max, hasDefault |-> hasDefault, default |-> default]

\* opacitySchema
opacitySchema ==
    [layerId |-> Field("number", FALSE, FALSE, 0, 0, FALSE, Absent),
     opacity |-> Field("number", FALSE, TRUE, 0, 100, FALSE, Absent)]

\* listLayersSchema
listLayersSchema ==
    [includeHidden |-> Field("boolean", FALSE, FALSE, 0, 0, TRUE, Bool(TRUE))]

\* the schema of the transform test of createTool
colorSchema ==
    [red   |-> Field("number", FALSE, FALSE, 0, 0, FALSE, Absent),
     green |-> Field("number", FALSE, FALSE, 0, 0, FALSE, Absent)]

\* one value against one field
FieldAccepts(field, value) ==
    /\ value[1] = field.type
    /\ field.ranged => (value[2] >= field.min /\ value[2] <= field.max)

\* the keys of the schema that args get wrong: missing and required, of the
\* wrong type, or out of range
Issues(schema, args) ==
    {k \in DOMAIN schema :
        IF k \in DOMAIN args
        THEN ~FieldAccepts(schema[k], args[k])
        ELSE ~schema[k].optional /\ ~schema[k].hasDefault}

\* schema.safeParse(args): the data has the keys of the schema only (unknown
\* keys are stripped), with the defaults filled in
safeParse(schema, args) ==
    [success |-> Issues(schema, args) = {},
     issues  |-> Issues(schema, args),
     data    |-> [k \in {k \in DOMAIN schema :
                            k \in DOMAIN args \/ schema[k].hasDefault} |->
                     IF k \in DOMAIN args THEN args[k] ELSE schema[k].default]]

\* the transform of the test: green is sent under the name grain
transformColor(args) == [color |-> [red |-> args.red, grain |-> args.green]]

\* the tools
\*   kind      : "echo" (ps_echo), "simple" (createSimpleTool), "schema"
\*               (createTool)
\*   transform : "none" or "color"
ToolTable ==
    [ps_echo              |-> [kind |-> "echo", command |-> "", schema |-> "none",
                               transform |-> "none", registered |-> TRUE],
     ps_app_get_info      |-> [kind |-> "simple", command |-> "app.get_info",
                               schema |-> "none", transform |-> "none",
                               registered |-> TRUE],
     ps_layer_set_opacity |-> [kind |-> "schema", command |-> "layer.set_opacity",
                               schema |-> "opacity", transform |-> "none",
                               registered |-> TRUE],
     ps_layer_list        |-> [kind |-> "schema", command |-> "layer.list",
                               schema |-> "listLayers", transform |-> "none",
                               registered |-> TRUE],
     ps_test              |-> [kind |-> "schema", command |-> "test.cmd",
                               schema |-> "color", transform |-> "color",
                               registered |-> FALSE]]

SchemaOf(name) ==
    IF ToolTable[name].schema = "opacity" THEN opacitySchema
    ELSE IF ToolTable[name].schema = "listLayers" THEN listLayersSchema
    ELSE colorSchema

\* tools: the Map of createToolRegistry
RegisteredTools == {n \in DOMAIN ToolTable : ToolTable[n].registered}

\* the names callTool is called with: the tools, and two that are none
ToolNames == DOMAIN ToolTable \cup {"ps_nope", "ps_echo_all"}

\* name.startsWith("ps_echo")
startsWithPsEcho(name) == name \in {"ps_echo", "ps_echo_all"}

\* the argument objects the callers pass to a tool: right ones, and ones
\* with a field missing, of the wrong type, out of range, or unknown
ToolArgs(name) ==
    IF name = "ps_echo"
    THEN { Object([message |-> m]) : m \in {Absent, Str("hi")} }
    ELSE IF name = "ps_layer_set_opacity"
    THEN { Object([layerId |-> l, opacity |-> o]) :
             l \in {Absent, Num(1)},
             o \in {Absent, Num(0 - 1), Num(50), Num(101), Str("50")} }
    ELSE IF name = "ps_layer_list"
    THEN { Object([includeHidden |-> h, extra |-> x]) :
             h \in {Absent, Bool(FALSE), Str("no")}, x \in {Absent, Num(7)} }
    ELSE IF name = "ps_test"
    THEN { Object([red |-> r, green |-> g]) :
             r \in {Num(255)}, g \in {Absent, Num(128), Str("128")} }
    ELSE { EmptyMap }

\* the responses a tool makes itself
UnknownTool(name) ==
    [ok |-> FALSE, changed |-> FALSE, error |-> <<"Unknown tool: ", name>>]
NotConnected ==
    [ok |-> FALSE, changed |-> FALSE,
     error |-> <<"Not connected to Photoshop. Please ensure the UXP plugin is running.">>]
ValidationFailed(issues) ==
    [ok |-> FALSE, changed |-> FALSE, error |-> <<"Validation failed: ", issues>>]
Echo(args) ==
    [ok |-> TRUE, changed |-> FALSE,
     data |-> [echo |-> Get(args, "message")]]

\* a createTool handler that forwards the arguments as they came
handler_noValidate(name, args) ==
    LET tool == ToolTable[name]
    IN  IF tool.kind = "echo"
        THEN [sends |-> << >>, result |-> Echo(args)]
        ELSE [sends |-> << <<tool.command, args>> >>, result |-> NoValue]

\* tool.handler(bridge, args) up to its return
\*   sends  : the calls of bridge.send it makes, <<command, params>>
\*   result : the response it returns itself, NoValue when it returns the
\*            promise of bridge.send
handler(name, args) ==
    LET tool == ToolTable[name]
    IN  IF tool.kind = "echo"
        THEN [sends |-> << >>, result |-> Echo(args)]
        ELSE IF tool.kind = "simple"
        THEN [sends |-> << <<tool.command, EmptyMap>> >>, result |-> NoValue]
        ELSE
          LET parseResult == safeParse(SchemaOf(name), args)
              params == IF tool.transform = "color"
                        THEN transformColor(parseResult.data)
                        ELSE parseResult.data
          IN  IF ~parseResult.success
              THEN [sends |-> << >>, result |-> ValidationFailed(parseResult.issues)]
              ELSE [sends |-> << <<tool.command, params>> >>, result |-> NoValue]

\* one call of a tool.  The entry appended to toolCalls keeps
\*   via       : "callTool" or "handler" (tool.handler called directly)
\*   connected : what bridge.isConnected() returned, or would have
\*   ran       : the handler of the tool ran
\*   sends     : the calls of bridge.send made, <<command, params>>
\*   result    : the response returned without the bridge, or NoValue
\*   call      : the send whose promise is returned (0: none, or send threw)
ToolCall(name, args, via, runs, result) ==
    LET h     == handler(name, args)
        sends == IF runs THEN h.sends ELSE << >>
    IN  /\ toolCalls' = Append(toolCalls,
              [name |-> name, args |-> args, via |-> via,
               connected |-> Server_isConnected, ran |-> runs,
               sends |-> sends,
               result |-> IF runs THEN h.result ELSE result,
               call |-> IF sends # << >> /\ Server_isConnected
                        THEN Len(calls) + 1 ELSE 0])
        /\ IF sends # << >>
           THEN Server_sendCore(sends[1][1])
           ELSE UNCHANGED bridgeVars

\* a registry that lets every call through to the handler
callTool_noCheck(name, args) ==
    /\ variant = "Listener" /\ ~uncaught
    /\ Len(toolCalls) < MaxToolCalls /\ Len(calls) < MaxCalls
    /\ IF name \notin RegisteredTools
       THEN ToolCall(name, args, "callTool", FALSE, UnknownTool(name))
       ELSE ToolCall(name, args, "callTool", TRUE, NoValue)
    /\ UNCHANGED <<variant, pluginVars, relayVars, sockets, slotVars, stderr, uncaught>>

\* callTool(name, args) of createToolRegistry
callTool(name, args) ==
    /\ variant = "Listener" /\ ~uncaught
    /\ Len(toolCalls) < MaxToolCalls /\ Len(calls) < MaxCalls
    /\ IF name \notin RegisteredTools
       THEN ToolCall(name, args, "callTool", FALSE, UnknownTool(name))
       ELSE IF ~startsWithPsEcho(name) /\ ~Server_isConnected
       THEN ToolCall(name, args, "callTool", FALSE, NotConnected)
       ELSE ToolCall(name, args, "callTool", TRUE, NoValue)
    /\ UNCHANGED <<variant, pluginVars, relayVars, sockets, slotVars, stderr, uncaught>>

\* tool.handler(bridge, args) called on a ToolDefinition, as the tests do
Tool_handler(name, args) ==
    /\ variant = "Listener" /\ ~uncaught
    /\ Len(toolCalls) < MaxToolCalls /\ Len(calls) < MaxCalls
    /\ name \in DOMAIN ToolTable
    /\ ToolCall(name, args, "handler", TRUE, NoValue)
    /\ UNCHANGED <<variant, pluginVars, relayVars, sockets, slotVars, stderr, uncaught>>

NextTools ==
    \/ Server_start
    \/ Server_on_connection
    \/ \E s \in 1..MaxSock : Server_on_error(s)
    \/ \E s \in 1..MaxSock : Server_on_close(s)
    \/ \E name \in ToolNames : \E args \in ToolArgs(name) : callTool(name, args)
    \/ \E name \in ToolNames : \E args \in ToolArgs(name) : Tool_handler(name, args)

SpecTools == InitListener /\ [][NextTools]_vars

\* ------------------------------------------------- properties of the plugin

\* the responses written for job j, in order
Written(j) == [k \in DOMAIN jobs[j].wrote |-> jobs[j].wrote[k][2].value]

\* job j is a request whose command the plugin did not register
UnknownJob(j) ==
    /\ jobs[j].request
    /\ jobs[j].command \notin Registered


\* C17: for a request whose command is not in the command table the plugin
\* runs no handler, lets no exception escape, and writes exactly one
\* response: ok false, changed false, error "Unknown command: <command>",
\* with the id of the request.
C17_UnknownCommand ==
    \A j \in DOMAIN jobs :
        UnknownJob(j) =>
            /\ jobs[j].ran = "none"
            /\ ~jobs[j].threw
            /\ jobs[j].state = "done"
            /\ Len(jobs[j].wrote) = 1
            /\ Written(j)[1].id = jobs[j].id
            /\ Written(j)[1].error = <<"Unknown command: ", jobs[j].command>>
            /\ Written(j)[1].ok = FALSE
            /\ Written(j)[1].changed = FALSE

\* C18: no exception escapes handleMessage, whatever the message is, and a
\* handler that throws or rejects is answered by one response with the
\* id of the request, ok false, changed false and the message as error
\* (none when the response cannot be written).
C18_NothingEscapes ==
    \A j \in DOMAIN jobs :
        /\ ~jobs[j].threw
        /\ jobs[j].failed =>
              /\ Len(jobs[j].wrote) <= 1
              /\ \A k \in DOMAIN jobs[j].wrote :
                    /\ Written(j)[k].id = jobs[j].id
                    /\ Written(j)[k].error # Absent
                    /\ Written(j)[k].ok = FALSE
                    /\ Written(j)[k].changed = FALSE

\* C19: every response the plugin writes carries the id of the request that
\* caused it, and no request gets more than one response.
C19_ResponseCarriesRequestId ==
    \A j \in DOMAIN jobs :
        /\ Len(jobs[j].wrote) <= 1
        /\ \A k \in DOMAIN jobs[j].wrote : Written(j)[k].id = jobs[j].id

\* ------------------------------------------------ properties of a session

\* the frame send wrote for call c
RequestOf(c) == JSONstringify([id |-> calls[c].id, command |-> calls[c].command])

\* job j is the plugin's handling of the request of call c
JobOf(j, c) ==
    /\ jobs[j].sock = calls[c].sock
    /\ jobs[j].data = RequestOf(c)

\* C15: the response a call of send is resolved with is one the plugin
\* produced for the request of that call, also when the plugin answers
\* after it has reconnected to a restarted server.
C15_OwnResponse ==
    \A c \in DOMAIN calls :
        calls[c].state = "resolved" =>
            \E j \in DOMAIN jobs :
                /\ JobOf(j, c)
                /\ \E k \in DOMAIN jobs[j].wrote :
                      jobs[j].wrote[k][2].value = calls[c].response

\* ------------------------------------------------- properties of the relay

\* the most recently accepted of a set of connections
Latest(S) == CHOOSE s \in S : \A t \in S : t <= s

\* C20: a message that arrives while the other role has an open connection
\* is forwarded exactly once, unmodified, to the most recently connected
\* open connection of the other role.
C20_ForwardedOnce ==
    \A m \in DOMAIN relayed :
        relayed[m].open # {} =>
            relayed[m].sent = << <<Latest(relayed[m].open), relayed[m].data>> >>

\* C21: a message that arrives while the target role has no open connection
\* is dropped: nothing is sent for it, neither to the target nor back to the
\* sender, and nothing is sent for it later, whatever connects afterwards.
C21_DroppedForGood ==
    /\ [](\A m \in DOMAIN relayed :
             relayed[m].open = {} => relayed[m].sent = << >>)
    /\ [][\A m \in DOMAIN relayed : relayed'[m] = relayed[m]]_vars

\* a message was dropped and the target role has an open connection now
C21_Witness ==
    \E m \in DOMAIN relayed :
        /\ relayed[m].open = {}
        /\ relayed[m].sent = << >>
        /\ OpenOf(OtherRole(rsockets[relayed[m].from].role)) # {}

\* ----------------------------------------------- properties of the tools

\* C22: while the bridge reports not connected callTool makes no call of
\* bridge.send: a registered tool other than ps_echo is answered with the
\* not-connected failure and its handler does not run; ps_echo answers ok
\* true with the message, connected or not.
C22_NotConnectedFailsFast ==
    \A t \in DOMAIN toolCalls :
        toolCalls[t].via = "callTool" =>
            /\ ~toolCalls[t].connected => toolCalls[t].sends = << >>
            /\ (/\ ~toolCalls[t].connected
                /\ toolCalls[t].name \in RegisteredTools \ {"ps_echo"})
               => (/\ ~toolCalls[t].ran
                   /\ toolCalls[t].result = NotConnected)
            /\ toolCalls[t].name = "ps_echo"
               => (/\ toolCalls[t].result.ok
                   /\ toolCalls[t].result.data.echo
                         = Get(toolCalls[t].args, "message"))

\* callTool was called for a tool that needs Photoshop, and for ps_echo,
\* while the bridge was not connected
C22_Witness ==
    /\ \E t \in DOMAIN toolCalls :
          /\ toolCalls[t].via = "callTool" /\ ~toolCalls[t].connected
          /\ toolCalls[t].name = "ps_layer_set_opacity"
    /\ \E t \in DOMAIN toolCalls :
          /\ toolCalls[t].via = "callTool" /\ ~toolCalls[t].connected
          /\ toolCalls[t].name = "ps_echo"
          /\ "message" \in DOMAIN toolCalls[t].args

\* x is a number
IsNumber(args, k) == k \in DOMAIN args /\ args[k][1] = "number"

\* the arguments fit the schema of the tool, said field by field
ValidArgs(name, args) ==
    IF name = "ps_layer_set_opacity"
    THEN /\ IsNumber(args, "layerId")
         /\ IsNumber(args, "opacity")
         /\ args.opacity[2] \in 0..100
    ELSE IF name = "ps_layer_list"
    THEN "includeHidden" \in DOMAIN args => args.includeHidden[1] = "boolean"
    ELSE IsNumber(args, "red") /\ IsNumber(args, "green")

\* what the tool has to hand to bridge.send for valid arguments
ExpectedParams(name, args) ==
    IF name = "ps_layer_set_opacity"
    THEN [layerId |-> args.layerId, opacity |-> args.opacity]
    ELSE IF name = "ps_layer_list"
    THEN [includeHidden |-> IF "includeHidden" \in DOMAIN args
                            THEN args.includeHidden ELSE Bool(TRUE)]
    ELSE [color |-> [red |-> args.red, grain |-> args.green]]

\* C23: the handler of a createTool tool calls bridge.send exactly when the
\* arguments fit the schema: once, with the configured command and the
\* parsed arguments (defaults filled in, transform applied), returning
\* the promise of that send; for arguments that do not fit it sends nothing
\* and returns ok false, changed false, error "Validation failed: ...".
C23_SendIffValid ==
    \A t \in DOMAIN toolCalls :
        LET tc == toolCalls[t]
        IN  (/\ tc.ran
             /\ tc.name \in DOMAIN ToolTable
             /\ ToolTable[tc.name].kind = "schema")
            => IF ValidArgs(tc.name, tc.args)
               THEN /\ tc.sends = << <<ToolTable[tc.name].command,
                                       ExpectedParams(tc.name, tc.args)>> >>
                    /\ tc.result = NoValue
                    /\ tc.connected =>
                          /\ tc.call \in DOMAIN calls
                          /\ calls[tc.call].command = ToolTable[tc.name].command
               ELSE /\ tc.sends = << >>
                    /\ tc.call = 0
                    /\ tc.result # NoValue
                    /\ tc.result.error[1] = "Validation failed: "
                    /\ ~tc.result.ok
                    /\ ~tc.result.changed

\* one handler was given an opacity out of range, another a default to fill
\* in and an unknown key to strip
C23_Witness ==
    /\ \E t \in DOMAIN toolCalls :
          /\ toolCalls[t].ran /\ toolCalls[t].name = "ps_layer_set_opacity"
          /\ IsNumber(toolCalls[t].args, "opacity")
          /\ toolCalls[t].args.opacity[2] = 101
          /\ toolCalls[t].sends = << >>
    /\ \E t \in DOMAIN toolCalls :
          /\ toolCalls[t].ran /\ toolCalls[t].name = "ps_layer_list"
          /\ DOMAIN toolCalls[t].args = {"extra"}
          /\ toolCalls[t].sends # << >>
          /\ toolCalls[t].call # 0

\* ------------------------------- properties of the plugin's connection

\* the sockets of the plugin that are connecting or open
Live == {p \in DOMAIN psockets : psockets[p].readyState \in {"CONNECTING", "OPEN"}}

\* this step delivers the close event of socket p
CloseEventOf(p) ==
    /\ p \in DOMAIN psockets
    /\ psockets[p].readyState # "CLOSED"
    /\ psockets'[p].readyState = "CLOSED"

\* C28: while its most recently created socket is connecting or open the
\* module-level ws refers to that socket; the close event of an older
\* socket neither clears that reference nor starts a reconnect timer.
C28_WsIsNewestSocket ==
    /\ [](\A p \in Live : p = Len(psockets) => pws = p)
    /\ [][\A p \in DOMAIN psockets :
            (CloseEventOf(p) /\ p < Len(psockets) /\ Len(psockets) \in Live)
            => (pws' = pws /\ reconnectInterval' = reconnectInterval)]_vars

\* C24 (its safety part): the plugin attempts a new connection only while it
\* has no live socket, so it never has two sockets that are connecting or
\* open.
C24_OneLiveSocket ==
    /\ [](Cardinality(Live) <= 1)
    /\ [][Len(psockets') > Len(psockets)
            => \A p \in Live : psockets'[p].readyState \notin {"CONNECTING", "OPEN"}]_vars

\* C25: after disconnect() and until connect() is called again the reconnect
\* timer is off, and the close event of the socket disconnect() closed
\* starts no timer and no connection attempt.
C25_DisconnectStaysOff ==
    /\ [](~autoReconnect => ~reconnectInterval)
    /\ [][\A p \in DOMAIN psockets :
            (~autoReconnect /\ CloseEventOf(p))
            => (/\ ~reconnectInterval'
                /\ ~autoReconnect'
                /\ Len(psockets') = Len(psockets))]_vars
    /\ [][(~autoReconnect /\ Len(psockets') > Len(psockets))
            => (status = "disconnected" /\ ~reconnectInterval)]_vars

\* the close event of the socket that disconnect() closed was delivered
\* while the auto-reconnect was still off
C25_Witness ==
    /\ ~autoReconnect
    /\ \E p \in DOMAIN psockets :
          /\ psockets[p].closedBy = "disconnect"
          /\ psockets[p].readyState = "CLOSED"

\* C30: the response to a request is written on the socket the request
\* arrived on, never on a socket the plugin opened later.
C30_SameConnection ==
    \A j \in DOMAIN jobs :
        \A k \in DOMAIN jobs[j].wrote : jobs[j].wrote[k][1] = jobs[j].sock

\* ------------------------------------------- properties of the Dialer slot

\* this step delivers the 'close' event of the Dialer's socket s
DialerCloseOf(s) ==
    /\ variant = "Dialer"
    /\ s \in DOMAIN sockets
    /\ sockets[s].readyState # "CLOSED"
    /\ sockets'[s].readyState = "CLOSED"

\* C27: isConnected() is true exactly when the transport the Dialer holds is
\* open (a transport whose close event is still due counts as open here),
\* and the close event of a transport it no longer holds neither marks it
\* disconnected nor rejects the calls pending on the transport it holds.
C27_ConnectedIffHeldOpen ==
    /\ [](variant = "Dialer" =>
            /\ Client_isConnected =>
                  (ws # NULL /\ sockets[ws].readyState \in {"OPEN", "CLOSING"})
            /\ (ws # NULL /\ sockets[ws].readyState = "OPEN") => Client_isConnected)
    /\ [][\A s \in DOMAIN sockets :
            (DialerCloseOf(s) /\ ws # NULL /\ s # ws)
            => (connected' = connected /\ calls' = calls)]_vars

\* the close event of transport s in the Listener
ListenerCloseOf(s) ==
    /\ variant = "Listener"
    /\ s \in DOMAIN sockets
    /\ sockets[s].readyState # "CLOSED"
    /\ sockets'[s].readyState = "CLOSED"

\* C29: in the Listener the close event of a transport that is not the
\* slot's transport (an evicted one) leaves the Connection Slot and the
\* Pending-Request Table as they were: the slot still holds the newer
\* transport, and no pending call is rejected, removed or loses its timer.
C29_StaleCloseIgnored ==
    [][\A s \in DOMAIN sockets :
          (ListenerCloseOf(s) /\ client # s)
          => UNCHANGED <<client, pendingRequests, timers, calls>>]_vars

\* an evicted transport has closed while the newer one holds the slot, open:
\* the call sent on the evicted transport and the call sent on the newer one
\* are both still pending
C29_Witness ==
    /\ variant = "Listener"
    /\ client # NULL
    /\ sockets[client].readyState = "OPEN"
    /\ \E s \in DOMAIN sockets :
          /\ s # client
          /\ sockets[s].evicted
          /\ sockets[s].readyState = "CLOSED"
          /\ \E c \in DOMAIN calls :
                /\ calls[c].sock = s
                /\ calls[c].state = "waiting"
                /\ calls[c].id \in DOMAIN pendingRequests
    /\ \E c \in DOMAIN calls :
          /\ calls[c].sock = client
          /\ calls[c].state = "waiting"
          /\ calls[c].id \in DOMAIN pendingRequests

\* a message of the plugin that was written on transport s arrives there
MessageFrom(s, data) ==
    /\ Server_on_message(s, data)
    /\ \E j \in DOMAIN jobs : \E k \in DOMAIN jobs[j].wrote :
          jobs[j].wrote[k] = <<s, data>>

\* the frames the plugin has written, on any of its sockets
SessionFrames ==
    UNION {{jobs[j].wrote[k][2] : k \in DOMAIN jobs[j].wrote} : j \in DOMAIN jobs}

\* C26: in the Listener a message received from a transport that is no longer
\* the slot's transport (evicted, replaced by a newer connection) resolves no
\* Pending Entry: no call is completed by it, no entry is removed and no timer
\* is cleared; only a message of the current transport can complete a call.
C26_StaleMessageDropped ==
    [][\A data \in SessionFrames :
          ( /\ \E s \in DOMAIN sockets : MessageFrom(s, data)
            /\ \A s \in DOMAIN sockets : MessageFrom(s, data) => s # client )
          => UNCHANGED <<pendingRequests, timers, calls>>]_vars

====
